---- MODULE Spec2Model ----
(***************************************************************************)
(* The three Streamlit scripts of the repository as one state machine.     *)
(*                                                                         *)
(*   sports   : sports-qna-roberta-base-squad2.py                          *)
(*   combined : text-summarization-qna-roberta-base-squad2.py              *)
(*   bart     : text_summarizer_fb_bart/text_summarizer_fb_bart.py         *)
(*                                                                         *)
(* Streamlit executes a script top to bottom once per user interaction.    *)
(* `app` is the script being served, `pc` the position inside the current  *)
(* script run, and Rerun starts the next run.  Values that Streamlit keeps *)
(* between runs (st.cache_data, st.cache_resource, st.session_state) are   *)
(* kept in `cache` and `session_state`; everything else is reset by Rerun. *)
(*                                                                         *)
(* Python values: a str is a sequence of one-character strings, None is    *)
(* the string "None" where the other values are strings, and an optional   *)
(* object is a sequence of length 0 (None / unbound) or 1.                 *)
(* The third-party calls (load_dataset, pipeline.run, the transformers     *)
(* pipelines, psutil) are nondeterministic: each either returns a value    *)
(* from a bounded set or raises one of Exceptions.                         *)
(***************************************************************************)
EXTENDS Integers, Sequences, FiniteSets, TLC

VARIABLES
    app,              \* which script is served
    pc,               \* position in the current script run
    display,          \* elements rendered so far in this run, in order
    uncaught,         \* exception that left the script run, or None
    e,                \* exception bound by `except Exception as e`, or None
    cache,            \* st.cache_data / st.cache_resource contents
    session_state,    \* st.session_state
    dataset,          \* load_documents: local `dataset`
    unique_docs,      \* load_documents: local `unique_docs`
    docs_validation,  \* load_documents: local
    docs_train,       \* load_documents: local
    docs_test,        \* load_documents: local
    documents,        \* sports script: global `documents`
    doc_store,        \* sports script: global `doc_store`
    pipe,             \* sports script: global `pipe`
    status,           \* sports script: the st.status container
    user_query,       \* sports script: st.text_input value
    run_data,         \* sports script: `data` passed to pipeline.run
    run_result,       \* sports script: answer["reader"]["answers"] it returned
    answer,           \* sports script: value returned by search()
    widgets,          \* labels of the input widgets rendered in this run
    clicked,          \* label of the button whose click started this run, or None
    mem,              \* combined script: psutil mem.available read in this run
    loaded,           \* combined script: transformers pipelines built
    model_choice,     \* combined script: selectbox value
    summ_text,        \* combined script: text area
    qa_context,       \* combined script: text area
    qa_question,      \* combined script: text area
    example_index,    \* combined script: sidebar selectbox value
    invoked,          \* combined script: model pipelines called
    input_text,       \* bart script: text area
    summary_points    \* bart script: value returned by summarize_text()

loadLocals == <<dataset, unique_docs, docs_validation, docs_train, docs_test>>
sportsRun == <<documents, doc_store, pipe, status, run_data, run_result,
              answer>>
kept == <<cache, session_state>>
combinedRun == <<mem, loaded, invoked>>
combinedWidgets == <<model_choice, summ_text, qa_context, qa_question,
                     example_index>>
widgetValues == <<user_query, combinedWidgets, input_text>>
vars == <<app, pc, display, uncaught, e, widgets, clicked, kept, loadLocals,
          sportsRun, combinedRun, widgetValues, summary_points>>

---------------------------------------------------------------------------
(* Bounds and input sets *)

MaxRecords == 3      \* records of the dataset, over its three splits
MaxAnswers == 4      \* answers the reader returns for one query
MaxTextLen == 2      \* characters of a text typed by the user

None == "None"
Min(a, b) == IF a < b THEN a ELSE b
SeqsUpTo(S, n) == UNION {[1..k -> S] : k \in 0..n}
Some(x) == <<x>>
Nothing == <<>>

Chars == {" ", "a"}
Texts == SeqsUpTo(Chars, MaxTextLen)
Exceptions == {"RuntimeError", "ValueError"}

Ids == {1, 2}
Contexts == {None, "a", "b"}
Records == [context : Contexts, context_id : Ids,
            context_title : {"title"}, url : {"url"}]
NoDataset == [validation |-> <<>>, train |-> <<>>, test |-> <<>>]

---------------------------------------------------------------------------
(* Rendered elements *)

Element(kind, num, text) == [kind |-> kind, num |-> num, text |-> text]
Kinds(d) == {d[i].kind : i \in 1..Len(d)}

---------------------------------------------------------------------------
(* sports: get_unique_docs *)

Document(doc) ==
    [content |-> doc.context,
     meta |-> [title |-> doc.context_title, context_id |-> doc.context_id,
               url |-> doc.url, source |-> "QASports"]]

\* Faulty variants of the line-16 test: one forgets the set, one the None check
is_unseen_ignores_set(doc, seen) == doc.context # None
is_unseen_any_context(doc, seen) == doc.context_id \notin seen

\* line 16
is_unseen(doc, seen) ==
    doc.context # None /\ doc.context_id \notin seen

\* Faulty variant of line 17: the id is never added
mark_seen_forgets(doc, seen) == seen

\* line 17
mark_seen(doc, seen) == seen \cup {doc.context_id}

RECURSIVE get_unique_docs_loop(_, _, _, _)
get_unique_docs_loop(ds, i, docs, seen) ==
    IF i > Len(ds) THEN [docs |-> docs, unique_docs |-> seen]
    ELSE IF is_unseen(ds[i], seen)
         THEN get_unique_docs_loop(ds, i + 1, Append(docs, Document(ds[i])),
                                   mark_seen(ds[i], seen))
         ELSE get_unique_docs_loop(ds, i + 1, docs, seen)

get_unique_docs(ds, seen) == get_unique_docs_loop(ds, 1, <<>>, seen)

load_documents_concat(validation, train, test) == validation \o train \o test

---------------------------------------------------------------------------
(* sports: caches, document store, pipeline, search *)

NoCache == [documents |-> Nothing, doc_store |-> Nothing, pipe |-> Nothing]
NoStatus == [label |-> "", state |-> "", expanded |-> TRUE]

\* st.session_state.get("expanded", True)
session_expanded(ss) == IF ss.expanded = Nothing THEN TRUE ELSE ss.expanded[1]

\* InMemoryDocumentStore().write_documents(documents)
InMemoryDocumentStore(docs) == [documents |-> docs]

\* Pipeline with the retriever over the store connected to the reader
Pipeline(store) ==
    [retriever |-> store, reader |-> "deepset/roberta-base-squad2",
     warm |-> TRUE, connected |-> TRUE]

top_k == 3

search_data(question) ==
    [retriever |-> [query |-> question, top_k |-> 10],
     reader |-> [query |-> question, top_k |-> top_k]]

\* Faulty variant of lines 111-112: no slice
search_result_unsliced(answers) == answers

search_result(answers) == SubSeq(answers, 1, Min(top_k, Len(answers)))

\* What the reader can return over a store: extracted spans, each with the
\* document it was found in, and the no-answer entry (data and document None).
ReaderAnswers(store) ==
    {[data |-> "span", document |-> Some(store.documents[i])] :
        i \in 1..Len(store.documents)}
    \cup {[data |-> None, document |-> Nothing]}

\* Faulty variant: the handler runs whatever the text is
truthy_always(text) == TRUE

\* Python truthiness of a str
truthy(text) == text # <<>>

sports_failure(x) ==
    Element("error", 0, <<"We do not have an answer for your question">>)

answer_block(k, ans) ==
    <<Element("info", k, <<ans.data, ans.document[1].meta.title,
                           ans.document[1].meta.url>>),
      Element("expander", k, <<"See details">>),
      Element("divider", k, <<>>)>>

\* The for loop of the query handler from its k-th answer on: the f-string
\* reads ans.document.meta before st.info is called, so an answer whose
\* document is None raises AttributeError and renders nothing.
RECURSIVE render_answers(_, _, _)
render_answers(answers, k, shown) ==
    IF k > Len(answers) THEN [display |-> shown, e |-> None]
    ELSE IF answers[k].document = Nothing
         THEN [display |-> shown, e |-> "AttributeError"]
         ELSE render_answers(answers, k + 1, shown \o answer_block(k, answers[k]))

---------------------------------------------------------------------------
(* The start of a script run *)

RunStart ==
    /\ pc' = "start"
    /\ display' = <<>>
    /\ uncaught' = None
    /\ e' = None
    /\ widgets' = {}
    /\ documents' = Nothing
    /\ doc_store' = Nothing
    /\ pipe' = Nothing
    /\ status' = NoStatus
    /\ run_data' = Nothing
    /\ run_result' = Nothing
    /\ answer' = Nothing
    /\ mem' = Nothing
    /\ loaded' = {}
    /\ invoked' = {}
    /\ summary_points' = <<>>
    /\ UNCHANGED <<app, cache, loadLocals>>

RunOver == pc = "done"

---------------------------------------------------------------------------
(* sports script *)

QueryInput == "Ask a question about Basketball!"

\* lines 116-123: logo, st.status(...) opened
sports_status ==
    /\ app = "sports" /\ pc = "start"
    /\ display' = Append(display, Element("image", 0, <<"assets/qasports-logo.png">>))
    /\ status' = [label |-> "Downloading dataset...", state |-> "running",
                  expanded |-> session_expanded(session_state)]
    /\ pc' = "load_documents"
    /\ UNCHANGED <<app, uncaught, e, widgets, clicked, kept, loadLocals, documents,
                   doc_store, pipe, run_data, run_result, answer, combinedRun,
                   widgetValues, summary_points>>

\* line 124, st.cache_data hit: the stored value is returned, the body does not run
load_documents_cached ==
    /\ app = "sports" /\ pc = "load_documents"
    /\ cache.documents # Nothing
    /\ documents' = cache.documents
    /\ display' = Append(display, Element("caption", 0, <<"Fetching dataset">>))
    /\ pc' = "get_document_store"
    /\ UNCHANGED <<app, uncaught, e, widgets, clicked, kept, loadLocals, doc_store,
                   pipe, status, run_data, run_result, answer, combinedRun, widgetValues,
                   summary_points>>

\* lines 49-54: unique_docs = set(); dataset = load_dataset(...)
load_dataset ==
    /\ app = "sports" /\ pc = "load_documents"
    /\ cache.documents = Nothing
    /\ \E validation \in SeqsUpTo(Records, MaxRecords) :
       \E train \in SeqsUpTo(Records, MaxRecords - Len(validation)) :
       \E test \in SeqsUpTo(Records, MaxRecords - Len(validation) - Len(train)) :
          dataset' = [validation |-> validation, train |-> train, test |-> test]
    /\ unique_docs' = {}
    /\ display' = Append(display, Element("caption", 0, <<"Fetching dataset">>))
    /\ pc' = "docs_validation"
    /\ UNCHANGED <<app, uncaught, e, widgets, clicked, kept, docs_validation,
                   docs_train, docs_test, sportsRun, combinedRun, widgetValues,
                   summary_points>>

\* line 55
load_validation ==
    /\ app = "sports" /\ pc = "docs_validation"
    /\ LET r == get_unique_docs(dataset.validation, unique_docs) IN
          /\ docs_validation' = r.docs
          /\ unique_docs' = r.unique_docs
    /\ pc' = "docs_train"
    /\ UNCHANGED <<app, display, uncaught, e, widgets, clicked, kept, dataset,
                   docs_train, docs_test, sportsRun, combinedRun, widgetValues,
                   summary_points>>

\* line 56
load_train ==
    /\ app = "sports" /\ pc = "docs_train"
    /\ LET r == get_unique_docs(dataset.train, unique_docs) IN
          /\ docs_train' = r.docs
          /\ unique_docs' = r.unique_docs
    /\ pc' = "docs_test"
    /\ UNCHANGED <<app, display, uncaught, e, widgets, clicked, kept, dataset,
                   docs_validation, docs_test, sportsRun, combinedRun,
                   widgetValues, summary_points>>

\* line 57
load_test ==
    /\ app = "sports" /\ pc = "docs_test"
    /\ LET r == get_unique_docs(dataset.test, unique_docs) IN
          /\ docs_test' = r.docs
          /\ unique_docs' = r.unique_docs
    /\ pc' = "return_documents"
    /\ UNCHANGED <<app, display, uncaught, e, widgets, clicked, kept, dataset,
                   docs_validation, docs_train, sportsRun, combinedRun,
                   widgetValues, summary_points>>

\* lines 58-59: the list is returned and cached, the locals are gone
load_documents_return ==
    /\ app = "sports" /\ pc = "return_documents"
    /\ LET docs == load_documents_concat(docs_validation, docs_train, docs_test) IN
          /\ documents' = Some(docs)
          /\ cache' = [cache EXCEPT !.documents = Some(docs)]
    /\ dataset' = NoDataset
    /\ unique_docs' = {}
    /\ docs_validation' = <<>>
    /\ docs_train' = <<>>
    /\ docs_test' = <<>>
    /\ pc' = "get_document_store"
    /\ UNCHANGED <<app, display, uncaught, e, widgets, clicked, session_state,
                   doc_store, pipe, status, run_data, run_result, answer, combinedRun,
                   widgetValues, summary_points>>

\* lines 125-126 and 62-72: st.cache_resource keyed by the documents argument
get_document_store ==
    /\ app = "sports" /\ pc = "get_document_store"
    /\ status' = [status EXCEPT !.label = "Indexing documents..."]
    /\ IF cache.doc_store # Nothing /\ cache.doc_store[1].key = documents[1]
       THEN /\ doc_store' = Some(cache.doc_store[1].value)
            /\ cache' = cache
       ELSE LET store == InMemoryDocumentStore(documents[1]) IN
            /\ doc_store' = Some(store)
            /\ cache' = [cache EXCEPT
                            !.doc_store = Some([key |-> documents[1], value |-> store])]
    /\ display' = Append(display, Element("caption", 0, <<"Building the Document Store">>))
    /\ pc' = "get_question_pipeline"
    /\ UNCHANGED <<app, uncaught, e, widgets, clicked, session_state, loadLocals,
                   documents, pipe, run_data, run_result, answer, combinedRun, widgetValues,
                   summary_points>>

\* lines 127-128 and 75-92: the _doc_store argument is not part of the cache key
get_question_pipeline ==
    /\ app = "sports" /\ pc = "get_question_pipeline"
    /\ status' = [status EXCEPT !.label = "Creating pipeline..."]
    /\ IF cache.pipe # Nothing
       THEN /\ pipe' = cache.pipe
            /\ cache' = cache
       ELSE /\ pipe' = Some(Pipeline(doc_store[1]))
            /\ cache' = [cache EXCEPT !.pipe = Some(Pipeline(doc_store[1]))]
    /\ display' = Append(display,
                         Element("caption", 0, <<"Building the Question Answering pipeline">>))
    /\ pc' = "status_complete"
    /\ UNCHANGED <<app, uncaught, e, widgets, clicked, session_state, loadLocals,
                   documents, doc_store, run_data, run_result, answer, combinedRun,
                   widgetValues, summary_points>>

\* lines 129-137
status_complete ==
    /\ app = "sports" /\ pc = "status_complete"
    /\ status' = [label |-> "Download and indexing complete!", state |-> "complete",
                  expanded |-> FALSE]
    /\ session_state' = [session_state EXCEPT !.expanded = Some(FALSE)]
    /\ display' = display \o <<Element("subheader", 0, <<"Basketball">>),
                               Element("caption", 0, <<"About QASports">>)>>
    /\ pc' = "text_input"
    /\ UNCHANGED <<app, uncaught, e, widgets, clicked, cache, loadLocals, documents,
                   doc_store, pipe, run_data, run_result, answer, combinedRun, widgetValues,
                   summary_points>>

\* lines 139-143: if user_query := st.text_input(...)
text_input ==
    /\ app = "sports" /\ pc = "text_input"
    /\ widgets' = widgets \cup {QueryInput}
    /\ pc' = IF truthy(user_query) THEN "search" ELSE "done"
    /\ UNCHANGED <<app, display, uncaught, e, clicked, kept, loadLocals, sportsRun,
                   combinedRun, widgetValues, summary_points>>

\* lines 145 and 104-112: pipeline.run returns, search slices the answers
search_returns ==
    /\ app = "sports" /\ pc = "search"
    /\ run_data' = Some(search_data(user_query))
    /\ \E answers \in SeqsUpTo(ReaderAnswers(pipe[1].retriever), MaxAnswers) :
          /\ run_result' = Some(answers)
          /\ answer' = Some(search_result(answers))
    /\ pc' = "render"
    /\ UNCHANGED <<app, display, uncaught, e, widgets, clicked, kept, loadLocals,
                   documents, doc_store, pipe, status, combinedRun,
                   widgetValues, summary_points>>

\* lines 145, 157-158: pipeline.run raises
search_raises ==
    /\ app = "sports" /\ pc = "search"
    /\ run_data' = Some(search_data(user_query))
    /\ \E x \in Exceptions :
          /\ e' = x
          /\ display' = Append(display, sports_failure(x))
    /\ pc' = "done"
    /\ UNCHANGED <<app, uncaught, widgets, clicked, kept, loadLocals, documents,
                   doc_store, pipe, status, run_result, answer, combinedRun,
                   widgetValues, summary_points>>

\* lines 146-158: the render loop, inside the try
render ==
    /\ app = "sports" /\ pc = "render"
    /\ LET r == render_answers(answer[1], 1, <<>>) IN
          /\ e' = r.e
          /\ display' = IF r.e = None THEN display \o r.display
                        ELSE Append(display \o r.display, sports_failure(r.e))
    /\ pc' = "done"
    /\ UNCHANGED <<app, uncaught, widgets, clicked, kept, loadLocals, sportsRun,
                   combinedRun, widgetValues, summary_points>>

\* The user submits the text input: the script runs again
sports_submit ==
    /\ app = "sports" /\ RunOver
    /\ QueryInput \in widgets
    /\ \E q \in Texts : user_query' = q
    /\ clicked' = None
    /\ RunStart
    /\ UNCHANGED <<session_state, combinedWidgets, input_text>>

---------------------------------------------------------------------------
(* Python str helpers *)

Whitespace == {" "}

RECURSIVE lstrip(_)
lstrip(text) ==
    IF text # <<>> /\ Head(text) \in Whitespace THEN lstrip(Tail(text)) ELSE text

RECURSIVE rstrip(_)
rstrip(text) ==
    IF text # <<>> /\ text[Len(text)] \in Whitespace
    THEN rstrip(SubSeq(text, 1, Len(text) - 1))
    ELSE text

\* str.strip()
strip(text) == rstrip(lstrip(text))

\* " ".join(parts)
RECURSIVE join(_)
join(parts) ==
    IF parts = <<>> THEN <<>>
    ELSE IF Len(parts) = 1 THEN parts[1]
    ELSE parts[1] \o <<" ">> \o join(Tail(parts))

\* text.split('. ')
RECURSIVE split(_)
split(text) ==
    LET hits == {i \in 1..(Len(text) - 1) : text[i] = "." /\ text[i + 1] = " "} IN
    IF hits = {} THEN <<text>>
    ELSE LET i == CHOOSE h \in hits : \A g \in hits : h <= g IN
         <<SubSeq(text, 1, i - 1)>> \o split(SubSeq(text, i + 2, Len(text)))

---------------------------------------------------------------------------
(* combined script *)

MinAvailable == 500 * 1024 * 1024
MemReadings == {0, MinAvailable - 1, MinAvailable, MinAvailable + 1}

ModelSelect == "Choose the model"
SummArea == "Enter the text to be summarized"
SummButton == "Summarize"
ContextArea == "Enter the context"
QuestionArea == "Enter the question"
QAButton == "Get Answer"
ExampleSelect == "Choose an example"
ModelChoices == {"Text Summarizer", "Question-Answer"}

examples ==
    << <<"Question-Answer", "",
         "The option to convert models between FARM and transformers gives freedom to the user and let people easily switch between frameworks.",
         "Why is model conversion important?">>,
       <<"Question-Answer", "",
         "The Amazon rainforest is a moist broadleaf forest that covers most of the Amazon basin of South America",
         "Which continent is the Amazon rainforest in?">>,
       <<"Question-Answer", "", "I am a Programmer.", "Who am I?">> >>

\* Faulty variant of lines 6-11: the error is shown but False is not returned
check_resources_no_return(available) ==
    IF available < 500 * 1024 * 1024
    THEN [ok |-> TRUE,
          shown |-> <<Element("error", available,
                              <<"Not enough memory to run this application. Available memory: {} MB">>)>>]
    ELSE [ok |-> TRUE, shown |-> <<>>]

\* lines 6-11: the value returned and the element shown.  The number shown
\* is mem.available / 1024 / 1024; the element keeps the reading in bytes.
check_resources(available) ==
    IF available < MinAvailable
    THEN [ok |-> FALSE,
          shown |-> <<Element("error", available,
                              <<"Not enough memory to run this application. Available memory: {} MB">>)>>]
    ELSE [ok |-> TRUE, shown |-> <<>>]

\* Faulty variant of line 59: the text is compared without strip()
summ_blank_unstripped(text) == text = <<>>

\* line 59 and line 70: the input counts as missing
summ_blank(text) == strip(text) = <<>>
qa_blank(context, question) == strip(context) = <<>> \/ strip(question) = <<>>

\* st.button(label): True in the run started by a click on it
button(label) == clicked = label

\* lines 13-16, 52
combined_start ==
    /\ app = "combined" /\ pc = "start"
    /\ \E available \in MemReadings :
          LET r == check_resources(available) IN
          /\ mem' = Some(available)
          /\ IF r.ok
             THEN /\ loaded' = {"summarizer", "nlp"}
                  /\ display' = Append(display \o r.shown,
                                       Element("title", 0, <<"Text Summarizer and Question-Answering App">>))
                  /\ pc' = "selectbox"
             ELSE /\ loaded' = loaded
                  /\ display' = display \o r.shown
                  /\ pc' = "done"
    /\ UNCHANGED <<app, uncaught, e, widgets, clicked, kept, loadLocals, sportsRun,
                   invoked, widgetValues, summary_points>>

\* lines 54, 56, 66
selectbox ==
    /\ app = "combined" /\ pc = "selectbox"
    /\ widgets' = widgets \cup {ModelSelect}
    /\ pc' = IF model_choice = "Text Summarizer" THEN "summarizer_branch"
             ELSE IF model_choice = "Question-Answer" THEN "qa_branch"
             ELSE "sidebar"
    /\ UNCHANGED <<app, display, uncaught, e, clicked, kept, loadLocals, sportsRun,
                   combinedRun, widgetValues, summary_points>>

\* lines 57-61
summarizer_branch ==
    /\ app = "combined" /\ pc = "summarizer_branch"
    /\ widgets' = widgets \cup {SummArea, SummButton}
    /\ IF button(SummButton)
       THEN IF summ_blank(summ_text)
            THEN /\ display' = Append(display,
                                      Element("error", 0, <<"Please enter some text to summarize.">>))
                 /\ pc' = "sidebar"
            ELSE /\ display' = display
                 /\ pc' = "summarize_text"
       ELSE /\ display' = display
            /\ pc' = "sidebar"
    /\ UNCHANGED <<app, uncaught, e, clicked, kept, loadLocals, sportsRun,
                   combinedRun, widgetValues, summary_points>>

\* lines 62-64 and 39-42: summarizer(...) returns
summarize_text_returns ==
    /\ app = "combined" /\ pc = "summarize_text"
    /\ invoked' = invoked \cup {"summarizer"}
    /\ display' = display \o <<Element("write", 0, <<"Summary:">>),
                               Element("write", 0, <<"summary_text">>)>>
    /\ pc' = "sidebar"
    /\ UNCHANGED <<app, uncaught, e, widgets, clicked, kept, loadLocals, sportsRun,
                   mem, loaded, widgetValues, summary_points>>

\* lines 62 and 40: summarizer(...) raises; nothing in the script catches it
summarize_text_raises ==
    /\ app = "combined" /\ pc = "summarize_text"
    /\ invoked' = invoked \cup {"summarizer"}
    /\ \E x \in Exceptions :
          /\ uncaught' = x
          /\ display' = Append(display, Element("exception", 0, <<x>>))
    /\ pc' = "done"
    /\ UNCHANGED <<app, e, widgets, clicked, kept, loadLocals, sportsRun, mem,
                   loaded, widgetValues, summary_points>>

\* lines 67-72
qa_branch ==
    /\ app = "combined" /\ pc = "qa_branch"
    /\ widgets' = widgets \cup {ContextArea, QuestionArea, QAButton}
    /\ IF button(QAButton)
       THEN IF qa_blank(qa_context, qa_question)
            THEN /\ display' = Append(display,
                                      Element("error", 0, <<"Please enter both context and question.">>))
                 /\ pc' = "sidebar"
            ELSE /\ display' = display
                 /\ pc' = "question_answer"
       ELSE /\ display' = display
            /\ pc' = "sidebar"
    /\ UNCHANGED <<app, uncaught, e, clicked, kept, loadLocals, sportsRun,
                   combinedRun, widgetValues, summary_points>>

\* lines 73-75 and 44-50: nlp(QA_input) returns
question_answer_returns ==
    /\ app = "combined" /\ pc = "question_answer"
    /\ invoked' = invoked \cup {"nlp"}
    /\ display' = display \o <<Element("write", 0, <<"Answer:">>),
                               Element("write", 0, <<"answer">>)>>
    /\ pc' = "sidebar"
    /\ UNCHANGED <<app, uncaught, e, widgets, clicked, kept, loadLocals, sportsRun,
                   mem, loaded, widgetValues, summary_points>>

\* lines 73 and 49: nlp(QA_input) raises; nothing in the script catches it
question_answer_raises ==
    /\ app = "combined" /\ pc = "question_answer"
    /\ invoked' = invoked \cup {"nlp"}
    /\ \E x \in Exceptions :
          /\ uncaught' = x
          /\ display' = Append(display, Element("exception", 0, <<x>>))
    /\ pc' = "done"
    /\ UNCHANGED <<app, e, widgets, clicked, kept, loadLocals, sportsRun, mem,
                   loaded, widgetValues, summary_points>>

\* lines 77-84
sidebar ==
    /\ app = "combined" /\ pc = "sidebar"
    /\ widgets' = widgets \cup {ExampleSelect}
    /\ display' = display \o
          <<Element("sidebar", 0, <<"Context:">>),
            Element("sidebar", 0, <<examples[example_index + 1][3]>>),
            Element("sidebar", 0, <<"Question:">>),
            Element("sidebar", 0, <<examples[example_index + 1][4]>>)>>
    /\ pc' = "done"
    /\ UNCHANGED <<app, uncaught, e, clicked, kept, loadLocals, sportsRun,
                   combinedRun, widgetValues, summary_points>>

\* Streamlit drops the value of a widget that the finished run did not render
PersistSumm == IF SummArea \in widgets THEN summ_text ELSE <<>>
PersistContext == IF ContextArea \in widgets THEN qa_context ELSE <<>>
PersistQuestion == IF QuestionArea \in widgets THEN qa_question ELSE <<>>
PersistExample == IF ExampleSelect \in widgets THEN example_index ELSE 0

\* The user picks the other model
combined_select ==
    /\ app = "combined" /\ RunOver
    /\ ModelSelect \in widgets
    /\ \E c \in ModelChoices \ {model_choice} : model_choice' = c
    /\ summ_text' = PersistSumm
    /\ qa_context' = PersistContext
    /\ qa_question' = PersistQuestion
    /\ example_index' = PersistExample
    /\ clicked' = None
    /\ RunStart
    /\ UNCHANGED <<session_state, user_query, input_text>>

\* The user edits one of the rendered text areas
combined_edit ==
    /\ app = "combined" /\ RunOver
    /\ \E area \in widgets \cap {SummArea, ContextArea, QuestionArea} :
       \E text \in Texts :
          /\ summ_text' = IF area = SummArea THEN text ELSE PersistSumm
          /\ qa_context' = IF area = ContextArea THEN text ELSE PersistContext
          /\ qa_question' = IF area = QuestionArea THEN text ELSE PersistQuestion
    /\ example_index' = PersistExample
    /\ clicked' = None
    /\ RunStart
    /\ UNCHANGED <<session_state, user_query, model_choice, input_text>>

\* The user clicks one of the rendered buttons
combined_click ==
    /\ app = "combined" /\ RunOver
    /\ \E b \in widgets \cap {SummButton, QAButton} : clicked' = b
    /\ summ_text' = PersistSumm
    /\ qa_context' = PersistContext
    /\ qa_question' = PersistQuestion
    /\ example_index' = PersistExample
    /\ RunStart
    /\ UNCHANGED <<session_state, user_query, model_choice, input_text>>

\* The user picks an example in the sidebar
combined_example ==
    /\ app = "combined" /\ RunOver
    /\ ExampleSelect \in widgets
    /\ \E i \in 0..(Len(examples) - 1) : example_index' = i
    /\ summ_text' = PersistSumm
    /\ qa_context' = PersistContext
    /\ qa_question' = PersistQuestion
    /\ clicked' = None
    /\ RunStart
    /\ UNCHANGED <<session_state, user_query, model_choice, input_text>>

---------------------------------------------------------------------------
(* bart script *)

BartArea == "Enter the text you want to summarize"

\* What the summarization pipeline can return: a list of summaries
SummaryTexts ==
    {<<"a">>, <<"a", ".">>, <<"a", ".", " ", "a">>, <<".", " ">>}
Summaries == SeqsUpTo(SummaryTexts, 2) \ {<<>>}

\* lines 14-15
summarize_text(summaries) == split(join(summaries))

bart_failure(x) == Element("error", 0, <<"An error occurred: ", x>>)

RECURSIVE write_points(_, _)
write_points(points, i) ==
    IF i > Len(points) THEN <<>>
    ELSE <<Element("write", i, points[i])>> \o write_points(points, i + 1)

\* lines 18-23
bart_text_area ==
    /\ app = "bart" /\ pc = "start"
    /\ display' = Append(display, Element("title", 0, <<"Text Summarizer">>))
    /\ widgets' = widgets \cup {BartArea}
    /\ pc' = IF truthy(input_text) THEN "summarize_text" ELSE "done"
    /\ UNCHANGED <<app, uncaught, e, clicked, kept, loadLocals, sportsRun,
                   combinedRun, widgetValues, summary_points>>

\* lines 26-31 and 11-15: the pipeline returns
bart_summarize_returns ==
    /\ app = "bart" /\ pc = "summarize_text"
    /\ \E summaries \in Summaries :
          /\ summary_points' = summarize_text(summaries)
          /\ display' = Append(display, Element("subheader", 0, <<"Summary">>))
                        \o write_points(summarize_text(summaries), 1)
    /\ pc' = "done"
    /\ UNCHANGED <<app, uncaught, e, widgets, clicked, kept, loadLocals, sportsRun,
                   combinedRun, widgetValues>>

\* lines 26, 33-34: building or calling the pipeline raises
bart_summarize_raises ==
    /\ app = "bart" /\ pc = "summarize_text"
    /\ \E x \in Exceptions :
          /\ e' = x
          /\ display' = Append(display, bart_failure(x))
    /\ pc' = "done"
    /\ UNCHANGED <<app, uncaught, widgets, clicked, kept, loadLocals, sportsRun,
                   combinedRun, widgetValues, summary_points>>

\* The user edits the text area
bart_edit ==
    /\ app = "bart" /\ RunOver
    /\ BartArea \in widgets
    /\ \E text \in Texts : input_text' = text
    /\ clicked' = None
    /\ RunStart
    /\ UNCHANGED <<session_state, user_query, combinedWidgets>>

---------------------------------------------------------------------------
(* Sessions *)

NoSession == [expanded |-> Nothing]

\* The page is loaded again: a new session, with the process-wide caches kept
reload ==
    /\ RunOver
    /\ session_state' = NoSession
    /\ user_query' = <<>>
    /\ model_choice' = "Text Summarizer"
    /\ summ_text' = <<>>
    /\ qa_context' = <<>>
    /\ qa_question' = <<>>
    /\ example_index' = 0
    /\ input_text' = <<>>
    /\ clicked' = None
    /\ RunStart

Apps == {"sports", "combined", "bart"}

Init ==
    /\ app \in Apps
    /\ pc = "start"
    /\ display = <<>>
    /\ uncaught = None
    /\ e = None
    /\ widgets = {}
    /\ clicked = None
    /\ cache = NoCache
    /\ session_state = NoSession
    /\ dataset = NoDataset
    /\ unique_docs = {}
    /\ docs_validation = <<>>
    /\ docs_train = <<>>
    /\ docs_test = <<>>
    /\ documents = Nothing
    /\ doc_store = Nothing
    /\ pipe = Nothing
    /\ status = NoStatus
    /\ user_query = <<>>
    /\ run_data = Nothing
    /\ run_result = Nothing
    /\ answer = Nothing
    /\ mem = Nothing
    /\ loaded = {}
    /\ model_choice = "Text Summarizer"
    /\ summ_text = <<>>
    /\ qa_context = <<>>
    /\ qa_question = <<>>
    /\ example_index = 0
    /\ invoked = {}
    /\ input_text = <<>>
    /\ summary_points = <<>>

Next ==
    \/ sports_status
    \/ load_documents_cached
    \/ load_dataset
    \/ load_validation
    \/ load_train
    \/ load_test
    \/ load_documents_return
    \/ get_document_store
    \/ get_question_pipeline
    \/ status_complete
    \/ text_input
    \/ search_returns
    \/ search_raises
    \/ render
    \/ sports_submit
    \/ combined_start
    \/ selectbox
    \/ summarizer_branch
    \/ summarize_text_returns
    \/ summarize_text_raises
    \/ qa_branch
    \/ question_answer_returns
    \/ question_answer_raises
    \/ sidebar
    \/ combined_select
    \/ combined_edit
    \/ combined_click
    \/ combined_example
    \/ bart_text_area
    \/ bart_summarize_returns
    \/ bart_summarize_raises
    \/ bart_edit
    \/ reload

Spec == Init /\ [][Next]_vars

---------------------------------------------------------------------------
(* Properties *)

Range(f) == {f[i] : i \in DOMAIN f}
NonBlank(text) == \E i \in 1..Len(text) : text[i] # " "
Shown(kind) == kind \in Kinds(display)
NoDuplicateIds(docs) ==
    \A i, j \in 1..Len(docs) :
        i # j => docs[i].meta.context_id # docs[j].meta.context_id

\* C1: no two documents collected by load_documents share a context_id, in
\* the lists of the three successive get_unique_docs calls taken together
\* after each call, and in the list load_documents returns.
C1_UniqueContextIds ==
    /\ NoDuplicateIds(docs_validation \o docs_train \o docs_test)
    /\ documents # Nothing => NoDuplicateIds(documents[1])

\* The three calls are over and two splits held the same context_id, each
\* with a context.
C1_Witness ==
    /\ pc = "return_documents"
    /\ \E i \in 1..Len(dataset.validation) : \E j \in 1..Len(dataset.train) :
          /\ dataset.validation[i].context_id = dataset.train[j].context_id
          /\ dataset.validation[i].context # None
          /\ dataset.train[j].context # None
    /\ Len(docs_validation \o docs_train \o docs_test) = 2

\* C2: an exception raised by the library call made for the user's input
\* never leaves the script run, and the caught exception ends in an error
\* element, in each of the three scripts.
C2_EveryExceptionCaught ==
    /\ uncaught = None
    /\ e # None => Shown("error")

\* C3: the failure message does not depend on the exception: what is shown
\* after catching e is what the same handler shows for every other exception.
C3_GenericFailureMessage ==
    e # None =>
        \A x \in Exceptions :
            display[Len(display)] =
                IF app = "sports" THEN sports_failure(x) ELSE bart_failure(x)

\* C4: the sports script runs its stages in order: the store is built from
\* the deduplicated list, the pipeline over the store, the status is complete
\* before pipeline.run is called, no answer is shown before search returned,
\* and an empty query never reaches the pipeline.
C4_StageOrder ==
    app = "sports" =>
        /\ documents # Nothing =>
              cache.documents = documents /\ NoDuplicateIds(documents[1])
        /\ doc_store # Nothing =>
              /\ documents # Nothing
              /\ doc_store[1].documents = documents[1]
        /\ pipe # Nothing =>
              doc_store # Nothing /\ pipe[1].retriever = doc_store[1]
        /\ status.state = "complete" => pipe # Nothing
        /\ (pc = "search" \/ run_data # Nothing) =>
              /\ documents # Nothing /\ doc_store # Nothing /\ pipe # Nothing
              /\ status.state = "complete"
              /\ user_query # <<>>
        /\ answer # Nothing => run_data # Nothing
        /\ Shown("info") => answer # Nothing
        /\ user_query = <<>> =>
              run_data = Nothing /\ answer = Nothing /\ ~Shown("info")

\* A run that went through every stage and showed an answer.
C4_Witness ==
    /\ app = "sports" /\ pc = "done"
    /\ Shown("info")
    /\ Len(documents[1]) = 2

\* The documents that load_documents must return for a dataset: of the
\* records taken in the order validation, train, test, those with a context
\* whose context_id no earlier record with a context carries, in that order.
FirstOfEachId(s) ==
    {i \in 1..Len(s) :
        /\ s[i].context # None
        /\ \A j \in 1..(i - 1) :
              s[j].context = None \/ s[j].context_id # s[i].context_id}

KeepsFirstOfEachId(ds, docs) ==
    LET s == ds.validation \o ds.train \o ds.test
        first == FirstOfEachId(s)
    IN  /\ Len(docs) = Cardinality(first)
        /\ \A i \in first :
              docs[Cardinality({j \in first : j <= i})] = Document(s[i])
        /\ \A id \in Ids :
              (\E i \in 1..Len(s) : s[i].context_id = id /\ s[i].context # None)
              => Cardinality({k \in 1..Len(docs) : docs[k].meta.context_id = id}) = 1

\* C5: load_documents returns, for every context_id that some record of some
\* split carries with a context, exactly one document, built from the first
\* such record in the order validation, train, test, and lists the documents
\* in that order.
C5_KeepsFirstOfEachId ==
    [][pc = "return_documents" => KeepsFirstOfEachId(dataset, documents'[1])]_vars

\* load_documents is about to return for a dataset where one context_id has
\* no context in validation, a context in train and another one in test.
C5_Witness ==
    /\ pc = "return_documents"
    /\ \E i \in 1..Len(dataset.validation) : \E j \in 1..Len(dataset.train) :
       \E k \in 1..Len(dataset.test) :
          /\ dataset.validation[i].context_id = dataset.train[j].context_id
          /\ dataset.test[k].context_id = dataset.train[j].context_id
          /\ dataset.validation[i].context = None
          /\ dataset.train[j].context # None
          /\ dataset.test[k].context # None
          /\ dataset.test[k].context # dataset.train[j].context
    /\ Len(docs_train) = 1

\* The records of ds that a call entered with the set `entry` emits: record i
\* is emitted iff it has a context and its id is neither in `entry` nor the id
\* of a record emitted before it.
EmittedBy(ds, entry, emitted) ==
    \A i \in 1..Len(ds) :
        i \in emitted <=>
            /\ ds[i].context # None
            /\ ds[i].context_id \notin
                  entry \cup {ds[j].context_id : j \in {k \in emitted : k < i}}

SetMembershipOnly(ds, entry, docs, exit) ==
    /\ \E emitted \in SUBSET (1..Len(ds)) :
          /\ EmittedBy(ds, entry, emitted)
          /\ Len(docs) = Cardinality(emitted)
          /\ \A i \in emitted :
                docs[Cardinality({j \in emitted : j <= i})] = Document(ds[i])
    /\ exit = entry \cup {docs[k].meta.context_id : k \in 1..Len(docs)}
    /\ \A k \in 1..Len(docs) : docs[k].meta.context_id \notin entry
    /\ \A i \in 1..Len(ds) :
          (ds[i].context = None /\ ds[i].context_id \notin entry
             /\ \A j \in 1..Len(ds) :
                   ds[j].context_id = ds[i].context_id => ds[j].context = None)
          => ds[i].context_id \notin exit
    /\ get_unique_docs(ds, exit) = [docs |-> <<>>, unique_docs |-> exit]

\* C6: each get_unique_docs call emits a record iff it has a context and its
\* context_id is not in unique_docs when it is visited; a record without a
\* context changes nothing; the set on return is the set on entry plus the
\* ids of the returned documents, none of which was in it on entry; a second
\* call with the same arguments returns nothing and leaves the set alone.
C6_SetMembershipOnly ==
    [][/\ pc = "docs_validation" =>
             SetMembershipOnly(dataset.validation, unique_docs,
                               docs_validation', unique_docs')
       /\ pc = "docs_train" =>
             SetMembershipOnly(dataset.train, unique_docs,
                               docs_train', unique_docs')
       /\ pc = "docs_test" =>
             SetMembershipOnly(dataset.test, unique_docs,
                               docs_test', unique_docs')]_vars

\* The call on the train split was entered with a non-empty set and emitted a
\* record whose context_id an earlier record of the split carried without a
\* context.
C6_Witness ==
    /\ pc = "docs_test"
    /\ Len(docs_validation) = 1
    /\ Len(docs_train) = 1
    /\ \E i, j \in 1..Len(dataset.train) :
          /\ i < j
          /\ dataset.train[i].context_id = dataset.train[j].context_id
          /\ dataset.train[i].context = None
          /\ dataset.train[j].context # None
          /\ docs_train[1] = Document(dataset.train[j])

\* C7: search returns the first min(3, n) of the reader's n answers, in order
\* and unchanged; with n = 0 it returns the empty list and the run shows
\* neither an answer nor the failure message; retriever and reader get the
\* same query, the question typed.
C7_SearchReturnsTopThree ==
    /\ answer # Nothing =>
          /\ Len(answer[1]) = (IF Len(run_result[1]) < 3 THEN Len(run_result[1]) ELSE 3)
          /\ \A i \in 1..Len(answer[1]) : answer[1][i] = run_result[1][i]
    /\ (answer # Nothing /\ run_result[1] = <<>> /\ pc = "done") =>
          answer[1] = <<>> /\ e = None /\ ~Shown("info") /\ ~Shown("error")
    /\ run_data # Nothing =>
          /\ run_data[1].retriever.query = user_query
          /\ run_data[1].reader.query = user_query

\* The reader returned more than three answers.
C7_Witness ==
    /\ answer # Nothing
    /\ Len(run_result[1]) = 4
    /\ Len(answer[1]) = 3
    /\ pc = "done"

\* C8: in the sports script a run never shows both an answer block and the
\* failure message.
C8_AnswersOrFailureNotBoth ==
    app = "sports" =>
        ~(sports_failure(e) \in Range(display) /\ Shown("info"))

\* C9: the combined script calls a model only for the selected model, after a
\* click on its button, on input that is not blank; a click with blank input
\* shows the validation error and calls nothing; no run calls both models.
C9_ModelsCalledOnlyOnInput ==
    app = "combined" =>
        /\ (pc = "summarize_text" \/ "summarizer" \in invoked) =>
              /\ model_choice = "Text Summarizer"
              /\ clicked = "Summarize"
              /\ NonBlank(summ_text)
        /\ (pc = "question_answer" \/ "nlp" \in invoked) =>
              /\ model_choice = "Question-Answer"
              /\ clicked = "Get Answer"
              /\ NonBlank(qa_context) /\ NonBlank(qa_question)
        /\ (SummButton \in widgets /\ clicked = "Summarize" /\ ~NonBlank(summ_text)) =>
              /\ Element("error", 0, <<"Please enter some text to summarize.">>)
                    \in Range(display)
              /\ invoked = {} /\ pc \in {"sidebar", "done"}
        /\ (QAButton \in widgets /\ clicked = "Get Answer"
              /\ ~(NonBlank(qa_context) /\ NonBlank(qa_question))) =>
              /\ Element("error", 0, <<"Please enter both context and question.">>)
                    \in Range(display)
              /\ invoked = {} /\ pc \in {"sidebar", "done"}
        /\ invoked # {"summarizer", "nlp"}

\* The summarizer was called on a text that starts with whitespace.
C9_Witness ==
    /\ app = "combined"
    /\ invoked = {"summarizer"}
    /\ summ_text = <<" ", "a">>

\* C10: in a run of the combined script where less than 500 MB are available
\* the memory error is all that is shown: no pipeline is loaded, no widget is
\* rendered, no model is called; pipelines and widgets exist only in runs
\* where at least 500 MB were available.
C10_LowMemoryStopsRun ==
    app = "combined" =>
        /\ (mem # Nothing /\ mem[1] < 524288000) =>
              /\ pc = "done"
              /\ Len(display) = 1 /\ display[1].kind = "error"
              /\ display[1].num = mem[1]
              /\ loaded = {} /\ widgets = {} /\ invoked = {}
        /\ (loaded # {} \/ widgets # {} \/ invoked # {} \/ Shown("title")) =>
              mem # Nothing /\ mem[1] >= 524288000

\* A run that read one byte less than 500 MB.
C10_Witness ==
    /\ app = "combined"
    /\ mem = Some(524288000 - 1)
    /\ pc = "done"

====
